---- MODULE Spec2Model ----
(***************************************************************************)
(* Model of podlet's src/quadlet.rs: the File aggregate (Display,          *)
(* service_name, host_paths, downgrade), the Resource dispatch, the        *)
(* PodmanVersion ordering and AutoUpdate::extract_from_labels.             *)
(*                                                                         *)
(* Strings whose characters matter (labels, file names) are sequences of   *)
(* one-character strings, so that strip_prefix, format! and push_str are   *)
(* real sequence operations.                                               *)
(***************************************************************************)
EXTENDS Integers, Sequences, FiniteSets, TLC

VARIABLES
    labels,         \* the Vec<String> passed to extract_from_labels
    labels_before,  \* that vector as it was on entry to the latest call
    auto_update,    \* value returned by the latest extract_from_labels call
    extracted,      \* values returned by the calls so far, oldest first
    version,        \* the PodmanVersion selected on the command line
    token,          \* the latest --podman-version string given, if any
    ordering,       \* the latest comparison of two PodmanVersions
    file,           \* the File: name, unit, resource, globals, service, install
    last,           \* the latest downgrade call: argument, File before, result
    downgrades,     \* the downgrade calls so far, oldest first
    out             \* what the latest service_name, fmt or host_paths gave

labelVars == <<labels, labels_before, auto_update, extracted>>
versionVars == <<version, token, ordering>>
fileVars == <<file, last, downgrades, out>>
vars == <<labelVars, versionVars, fileVars>>

----------------------------------------------------------------------------
(* Bounds *)

MaxLabels == 4      \* longest label list
MaxCalls == 2       \* extract_from_labels calls on one list
MaxPaths == 2       \* host paths in the resource, and in the globals
MaxDowngrades == 2  \* downgrade calls on one File

----------------------------------------------------------------------------
(* Option<T> and Result<T, E> *)

None == [some |-> FALSE]
Some(x) == [some |-> TRUE, value |-> x]

----------------------------------------------------------------------------
(* PodmanVersion *)

\* the variants in declaration order
PodmanVersion == <<"V4_4", "V4_5", "V4_6", "V4_7", "V4_8", "V5_0">>

PodmanVersions == { PodmanVersion[i] : i \in 1..Len(PodmanVersion) }

\* the discriminant the derived PartialOrd/Ord compare: declaration position
discriminant(v) == CHOOSE i \in 1..Len(PodmanVersion) : PodmanVersion[i] = v

\* derived Ord::cmp
cmp(a, b) ==
    IF discriminant(a) < discriminant(b) THEN "Less"
    ELSE IF discriminant(a) = discriminant(b) THEN "Equal"
    ELSE "Greater"

lt(a, b) == cmp(a, b) = "Less"
le(a, b) == cmp(a, b) # "Greater"

\* #[value(name = ..., aliases = [...])]
to_possible_value(v) ==
    CASE v = "V4_4" -> [name |-> "4.4",
                        aliases |-> {"4.4.0", "4.4.1", "4.4.2", "4.4.3", "4.4.4"}]
      [] v = "V4_5" -> [name |-> "4.5", aliases |-> {"4.5.0", "4.5.1"}]
      [] v = "V4_6" -> [name |-> "4.6", aliases |-> {"4.6.0", "4.6.1", "4.6.2"}]
      [] v = "V4_7" -> [name |-> "4.7", aliases |-> {"4.7.0", "4.7.1", "4.7.2"}]
      [] v = "V4_8" -> [name |-> "4.8",
                        aliases |-> {"4.8.0", "4.8.1", "4.8.2", "4.8.3", "4.9",
                                     "4.9.0", "4.9.1", "4.9.2", "4.9.3", "4.9.4"}]
      [] v = "V5_0" -> [name |-> "5.0",
                        aliases |-> {"latest", "5.0.0", "5.0.1", "5.0.2"}]

matches(v, input) ==
    input = to_possible_value(v).name \/ input \in to_possible_value(v).aliases

\* ValueEnum::from_str: the first variant, in declaration order, whose name or
\* alias is the input
from_str(input) ==
    LET hits == { i \in 1..Len(PodmanVersion) : matches(PodmanVersion[i], input) }
    IN IF hits = {} THEN None
       ELSE Some(PodmanVersion[CHOOSE i \in hits : \A j \in hits : i <= j])

LATEST_stale == "V4_8"

LATEST == "V5_0"

PodmanVersion_default == LATEST

\* PodmanVersion::as_str
as_str(v) ==
    CASE v = "V4_4" -> "4.4"
      [] v = "V4_5" -> "4.5"
      [] v = "V4_6" -> "4.6"
      [] v = "V4_7" -> "4.7"
      [] v = "V4_8" -> "4.8"
      [] v = "V5_0" -> "5.0"

----------------------------------------------------------------------------
(* AutoUpdate *)

NotCalled == [called |-> FALSE]

LABEL_KEY ==
    <<"i", "o", ".", "c", "o", "n", "t", "a", "i", "n", "e", "r", "s", ".",
      "a", "u", "t", "o", "u", "p", "d", "a", "t", "e">>

str_registry == <<"r", "e", "g", "i", "s", "t", "r", "y">>
str_local == <<"l", "o", "c", "a", "l">>

\* str::strip_prefix
strip_prefix(s, prefix) ==
    IF Len(s) >= Len(prefix) /\ SubSeq(s, 1, Len(prefix)) = prefix
    THEN Some(SubSeq(s, Len(prefix) + 1, Len(s)))
    ELSE None

from_str_lenient(s) ==
    IF s = str_local THEN Some("Local") ELSE Some("Registry")

\* <AutoUpdate as FromStr>::from_str followed by Result::ok
AutoUpdate_from_str(s) ==
    IF s = str_registry THEN Some("Registry")
    ELSE IF s = str_local THEN Some("Local")
    ELSE None

\* label.strip_prefix(LABEL_KEY).and_then(strip_prefix('=')).and_then(parse)
label_value(label) ==
    LET key == strip_prefix(label, LABEL_KEY)
        rest == IF key.some THEN strip_prefix(key.value, <<"=">>) ELSE None
    IN IF rest.some THEN AutoUpdate_from_str(rest.value) ELSE None

first_wins(current, value) == IF current.some THEN current ELSE Some(value)

\* the closure's assignment `auto_update = Some(value)`
closure_assign(current, value) == Some(value)

keep_all(parsed) == TRUE

\* the closure's return value: map_or(true, |value| { ...; false })
closure_keep(parsed) == ~parsed.some

\* Vec::retain with the closure of extract_from_labels: visits the labels in
\* order, exactly once each
RECURSIVE retain(_, _, _, _)
retain(v, i, kept, current) ==
    IF i > Len(v) THEN [labels |-> kept, auto_update |-> current]
    ELSE LET parsed == label_value(v[i])
             next == IF parsed.some THEN closure_assign(current, parsed.value)
                     ELSE current
         IN IF closure_keep(parsed)
            THEN retain(v, i + 1, Append(kept, v[i]), next)
            ELSE retain(v, i + 1, kept, next)

extract_from_labels(v) == retain(v, 1, <<>>, None)

\* Label strings the lists are drawn from
Label(suffix) == LABEL_KEY \o suffix

LabelUniverse ==
    { Label(<<"=">> \o str_registry),
      Label(<<"=">> \o str_local),
      Label(<<"=", "b", "o", "g", "u", "s">>),
      Label(<<"=", "R", "e", "g", "i", "s", "t", "r", "y">>),
      Label(<<"=">>),
      Label(<<>>),
      Label(<<".", "a", "u", "t", "h", "f", "i", "l", "e", "=", "x">>),
      <<"f", "o", "o", "=", "b", "a", "r">> }

SeqsUpTo(S, n) == UNION { [1..k -> S] : k \in 0..n }

----------------------------------------------------------------------------
(* ResourceKind, Resource *)

ResourceKind == {"Container", "Pod", "Kube", "Network", "Volume", "Image"}

\* <ResourceKind as From<&Resource>>::from
ResourceKind_from(resource) == resource.variant

name_to_service_kube_suffix(self, name) ==
    LET service ==
            CASE self.variant = "Container" -> name
              [] self.variant = "Kube" -> name \o <<"-", "k", "u", "b", "e">>
              [] self.variant = "Pod" -> name \o <<"-", "p", "o", "d">>
              [] self.variant = "Network" ->
                     name \o <<"-", "n", "e", "t", "w", "o", "r", "k">>
              [] self.variant = "Volume" ->
                     name \o <<"-", "v", "o", "l", "u", "m", "e">>
              [] self.variant = "Image" -> name \o <<"-", "i", "m", "a", "g", "e">>
    IN service \o <<".", "s", "e", "r", "v", "i", "c", "e">>

\* Resource::name_to_service
name_to_service(self, name) ==
    LET service ==
            CASE self.variant \in {"Container", "Kube"} -> name
              [] self.variant = "Pod" -> name \o <<"-", "p", "o", "d">>
              [] self.variant = "Network" ->
                     name \o <<"-", "n", "e", "t", "w", "o", "r", "k">>
              [] self.variant = "Volume" ->
                     name \o <<"-", "v", "o", "l", "u", "m", "e">>
              [] self.variant = "Image" -> name \o <<"-", "i", "m", "a", "g", "e">>
    IN service \o <<".", "s", "e", "r", "v", "i", "c", "e">>

\* File::service_name
service_name(self) == name_to_service(self.resource, self.name)

----------------------------------------------------------------------------
(* Display.  A rendered text is a sequence of chunks; "\n" is the line     *)
(* break that writeln! and the "\n{..}" format strings write.              *)

\* Display of the active variant (container.rs, pod.rs, ...): the section
\* header of the kind, then one line per option in use
Variant_fmt(variant, payload) ==
    <<"[" \o variant \o "]", "\n">>
    \o [i \in 1..Len(payload.options) |-> payload.options[i].line]

\* <Resource as Display>::fmt
Resource_fmt(self) ==
    CASE self.variant = "Container" -> Variant_fmt("Container", self.payload)
      [] self.variant = "Pod" -> Variant_fmt("Pod", self.payload)
      [] self.variant = "Kube" -> Variant_fmt("Kube", self.payload)
      [] self.variant = "Network" -> Variant_fmt("Network", self.payload)
      [] self.variant = "Volume" -> Variant_fmt("Volume", self.payload)
      [] self.variant = "Image" -> Variant_fmt("Image", self.payload)

\* Display of Globals (globals.rs): one line per option in use, no header
Globals_fmt(globals) ==
    [i \in 1..Len(globals.options) |-> globals.options[i].line]

File_fmt_no_line_break(self) ==
    LET unit == IF self.unit.some THEN self.unit.value ELSE <<>>
        body == Resource_fmt(self.resource) \o Globals_fmt(self.globals)
        service == IF self.service.some
                   THEN <<"\n">> \o self.service.value ELSE <<>>
        install == IF self.install.some
                   THEN <<"\n">> \o self.install.value ELSE <<>>
    IN unit \o body \o service \o install

\* <File as Display>::fmt
File_fmt(self) ==
    LET unit == IF self.unit.some THEN self.unit.value \o <<"\n">> ELSE <<>>
        body == Resource_fmt(self.resource) \o Globals_fmt(self.globals)
        service == IF self.service.some
                   THEN <<"\n">> \o self.service.value ELSE <<>>
        install == IF self.install.some
                   THEN <<"\n">> \o self.install.value ELSE <<>>
    IN unit \o body \o service \o install

----------------------------------------------------------------------------
(* HostPaths.  A handle names the PathBuf it borrows; an iterator is the    *)
(* sequence of handles it has yet to yield.                                *)

Handle(owner, field) == [owner |-> owner, field |-> field]

\* Iterator::next of a plain iterator
iter_next(it) ==
    IF it = <<>> THEN [item |-> None, iter |-> it]
    ELSE [item |-> Some(Head(it)), iter |-> Tail(it)]

\* host_paths of the active variant (container.rs, pod.rs, ...): its
\* host-path fields in field order
Variant_host_paths(payload) ==
    [i \in 1..Len(payload.paths) |-> Handle("resource", i)]

\* <Globals as HostPaths>::host_paths (globals.rs)
Globals_host_paths(globals) ==
    [i \in 1..Len(globals.paths) |-> Handle("globals", i)]

Resource_host_paths_pod_empty(self) ==
    CASE self.variant \in {"Network", "Pod"} ->
             [variant |-> self.variant, iter |-> <<>>]
      [] OTHER -> [variant |-> self.variant,
                   iter |-> Variant_host_paths(self.payload)]

\* <Resource as HostPaths>::host_paths: the ResourceIter of the variant
Resource_host_paths(self) ==
    CASE self.variant = "Container" ->
             [variant |-> "Container", iter |-> Variant_host_paths(self.payload)]
      [] self.variant = "Pod" ->
             [variant |-> "Pod", iter |-> Variant_host_paths(self.payload)]
      [] self.variant = "Kube" ->
             [variant |-> "Kube", iter |-> Variant_host_paths(self.payload)]
      [] self.variant = "Network" -> [variant |-> "Network", iter |-> <<>>]
      [] self.variant = "Volume" ->
             [variant |-> "Volume", iter |-> Variant_host_paths(self.payload)]
      [] self.variant = "Image" ->
             [variant |-> "Image", iter |-> Variant_host_paths(self.payload)]

\* <ResourceIter as Iterator>::next: forwards to the wrapped iterator
ResourceIter_next(self) ==
    LET r == iter_next(self.iter)
    IN [item |-> r.item, iter |-> [self EXCEPT !.iter = r.iter]]

\* <File as HostPaths>::host_paths: resource.chain(globals)
File_host_paths(self) ==
    [a |-> Some(Resource_host_paths(self.resource)),
     b |-> Some(Globals_host_paths(self.globals))]

\* Chain::next: the first iterator until it returns None, which drops it;
\* from then on the second
Chain_next(chain) ==
    LET first == IF chain.a.some THEN ResourceIter_next(chain.a.value)
                 ELSE [item |-> None]
        second == iter_next(chain.b.value)
    IN IF chain.a.some /\ first.item.some
       THEN [item |-> first.item, chain |-> [chain EXCEPT !.a = Some(first.iter)]]
       ELSE [item |-> second.item,
             chain |-> [a |-> None, b |-> Some(second.iter)]]

----------------------------------------------------------------------------
(* Downgrade *)

Ok == [ok |-> TRUE]

\* DowngradeError::Option
Err_Option(quadlet_option, supported_version) ==
    [ok |-> FALSE, error |-> "Option", quadlet_option |-> quadlet_option,
     supported_version |-> supported_version]

\* DowngradeError::Kind
Err_Kind(kind, supported_version) ==
    [ok |-> FALSE, error |-> "Kind", kind |-> kind,
     supported_version |-> supported_version]

\* the version that introduced each kind of Quadlet file
KindSince(kind) ==
    CASE kind = "Pod" -> "V5_0"
      [] kind = "Image" -> "V4_8"
      [] OTHER -> "V4_4"

PodmanArgs == [name |-> "PodmanArgs", since |-> "V4_6", strip |-> FALSE,
               line |-> "PodmanArgs=--opt"]

RECURSIVE downgrade_options_into_args(_, _, _, _)
downgrade_options_into_args(options, i, kept, target) ==
    IF i > Len(options) THEN [result |-> Ok, options |-> kept]
    ELSE LET o == options[i]
         IN IF le(o.since, target)
            THEN downgrade_options_into_args(options, i + 1, Append(kept, o), target)
            ELSE IF o.strip
            THEN downgrade_options_into_args(options, i + 1,
                                             Append(kept, PodmanArgs), target)
            ELSE [result |-> Err_Option(o.name, o.since),
                  options |-> kept \o SubSeq(options, i, Len(options))]

\* the walk a downgrade makes over the options in use, in order: an option
\* newer than the target is removed when it can be, and otherwise stops the
\* walk with DowngradeError::Option, the options already removed staying so
RECURSIVE downgrade_options(_, _, _, _)
downgrade_options(options, i, kept, target) ==
    IF i > Len(options) THEN [result |-> Ok, options |-> kept]
    ELSE LET o == options[i]
         IN IF le(o.since, target)
            THEN downgrade_options(options, i + 1, Append(kept, o), target)
            ELSE IF o.strip
            THEN downgrade_options(options, i + 1, kept, target)
            ELSE [result |-> Err_Option(o.name, o.since),
                  options |-> kept \o SubSeq(options, i, Len(options))]

\* downgrade of the active variant (container.rs, pod.rs, ...): the kind's
\* own version gate, then its options
Variant_downgrade(variant, payload, target) ==
    IF lt(target, KindSince(variant))
    THEN [result |-> Err_Kind(variant, KindSince(variant)), payload |-> payload]
    ELSE LET r == downgrade_options(payload.options, 1, <<>>, target)
         IN [result |-> r.result,
             payload |-> [payload EXCEPT !.options = r.options]]

\* <Globals as Downgrade>::downgrade (globals.rs)
Globals_downgrade(globals, target) ==
    LET r == downgrade_options(globals.options, 1, <<>>, target)
    IN [result |-> r.result, globals |-> [globals EXCEPT !.options = r.options]]

Resource_downgrade_swallow(self, target) ==
    LET r == Variant_downgrade(self.variant, self.payload, target)
    IN [result |-> Ok, resource |-> [self EXCEPT !.payload = r.payload],
        trace |-> <<"Resource::downgrade", self.variant \o "::downgrade">>]

\* <Resource as Downgrade>::downgrade: every arm hands the call to the variant
Resource_downgrade(self, target) ==
    LET r == CASE self.variant = "Container" ->
                      Variant_downgrade("Container", self.payload, target)
               [] self.variant = "Pod" ->
                      Variant_downgrade("Pod", self.payload, target)
               [] self.variant = "Kube" ->
                      Variant_downgrade("Kube", self.payload, target)
               [] self.variant = "Network" ->
                      Variant_downgrade("Network", self.payload, target)
               [] self.variant = "Volume" ->
                      Variant_downgrade("Volume", self.payload, target)
               [] self.variant = "Image" ->
                      Variant_downgrade("Image", self.payload, target)
    IN [result |-> r.result, resource |-> [self EXCEPT !.payload = r.payload],
        trace |-> <<"Resource::downgrade", self.variant \o "::downgrade">>]

File_downgrade_no_early_return(self, target) ==
    LET r == Resource_downgrade(self.resource, target)
        g == Globals_downgrade(self.globals, target)
    IN [result |-> IF r.result.ok THEN g.result ELSE r.result,
        file |-> [self EXCEPT !.resource = r.resource, !.globals = g.globals],
        trace |-> <<"File::downgrade">> \o r.trace \o <<"Globals::downgrade">>]

\* <File as Downgrade>::downgrade: self.resource.downgrade(version)?;
\* self.globals.downgrade(version)
File_downgrade(self, target) ==
    LET r == Resource_downgrade(self.resource, target)
        g == Globals_downgrade(self.globals, target)
    IN IF ~r.result.ok
       THEN [result |-> r.result,
             file |-> [self EXCEPT !.resource = r.resource],
             trace |-> <<"File::downgrade">> \o r.trace]
       ELSE [result |-> g.result,
             file |-> [self EXCEPT !.resource = r.resource,
                                   !.globals = g.globals],
             trace |-> <<"File::downgrade">> \o r.trace \o <<"Globals::downgrade">>]

----------------------------------------------------------------------------
(* States before any call *)

NoToken == "<default>"
NoOrdering == [compared |-> FALSE]

\* strings given as --podman-version
Tokens ==
    UNION { {to_possible_value(v).name} \cup to_possible_value(v).aliases :
            v \in PodmanVersions }
    \cup {"4.3", "5", "Latest"}

VersionIdle ==
    /\ version = PodmanVersion_default
    /\ token = NoToken
    /\ ordering = NoOrdering

LabelsIdle ==
    /\ labels = <<>>
    /\ labels_before = <<>>
    /\ auto_update = NotCalled
    /\ extracted = <<>>

NoCall == [op |-> "none"]
NoOutput == [op |-> "none"]

\* Quadlet options a resource section can use, in the order a downgrade walks
\* them
ResourceOptions ==
    <<[name |-> "Image", since |-> "V4_4", strip |-> FALSE,
       line |-> "Image=quay.io/app"],
      [name |-> "Pull", since |-> "V4_6", strip |-> TRUE, line |-> "Pull=never"],
      [name |-> "GlobalArgs", since |-> "V4_8", strip |-> FALSE,
       line |-> "GlobalArgs=--log-level=debug"]>>

\* Quadlet options of the globals block
GlobalsOptions ==
    <<[name |-> "ContainersConfModule", since |-> "V4_5", strip |-> TRUE,
       line |-> "ContainersConfModule=/etc/nvd.conf"],
      [name |-> "Module", since |-> "V4_7", strip |-> FALSE,
       line |-> "Module=/etc/mod.conf"]>>

PathPool == <<"/srv/a", "/srv/b", "/srv/c", "/srv/d">>

Names == { <<"a">>, <<"w", "e", "b">>, <<"m", "y", "-", "a", "p", "p">> }

UnitText == <<"[Unit]", "\n", "Wants=db.service", "\n">>
ServiceText == <<"[Service]", "\n", "Restart=always", "\n">>
InstallText == <<"[Install]", "\n", "WantedBy=default.target", "\n">>

\* the subsequences of a sequence, each in the order of the sequence
SubSeqs(s) ==
    { SelectSeq(s, LAMBDA o : o \in chosen) :
      chosen \in SUBSET { s[i] : i \in 1..Len(s) } }

Paths(n) == SubSeq(PathPool, 1, n)

Resources(optionSets, maxPaths) ==
    { [variant |-> k, payload |-> [options |-> o, paths |-> Paths(n)]] :
      k \in ResourceKind, o \in optionSets, n \in 0..maxPaths }

FileIdle ==
    /\ file = [name |-> <<"a">>, unit |-> None,
               resource |-> [variant |-> "Container",
                             payload |-> [options |-> <<>>, paths |-> <<>>]],
               globals |-> [options |-> <<>>, paths |-> <<>>],
               service |-> None, install |-> None]
    /\ last = NoCall
    /\ downgrades = <<>>
    /\ out = NoOutput

\* the options in use in a File
OptionsInUse(f) ==
    { f.resource.payload.options[i].name :
        i \in 1..Len(f.resource.payload.options) }
    \cup { f.globals.options[i].name : i \in 1..Len(f.globals.options) }

----------------------------------------------------------------------------
(* Choosing and comparing versions *)

InitVersion ==
    /\ VersionIdle
    /\ LabelsIdle
    /\ FileIdle

ParseVersion(input) ==
    /\ token' = input
    /\ version' = IF from_str(input).some THEN from_str(input).value ELSE version
    /\ UNCHANGED <<ordering, labelVars, fileVars>>

Compare(a, b) ==
    /\ ordering' = [compared |-> TRUE, a |-> a, b |-> b, result |-> cmp(a, b)]
    /\ UNCHANGED <<version, token, labelVars, fileVars>>

NextVersion ==
    \/ \E input \in Tokens : ParseVersion(input)
    \/ \E a, b \in PodmanVersions : Compare(a, b)

SpecVersion == InitVersion /\ [][NextVersion]_vars

----------------------------------------------------------------------------
(* Extracting the auto-update label *)

InitLabels ==
    /\ VersionIdle
    /\ FileIdle
    /\ labels \in SeqsUpTo(LabelUniverse, MaxLabels)
    /\ labels_before = labels
    /\ auto_update = NotCalled
    /\ extracted = <<>>

ExtractFromLabels ==
    /\ Len(extracted) < MaxCalls
    /\ LET r == extract_from_labels(labels)
       IN /\ labels' = r.labels
          /\ auto_update' = r.auto_update
          /\ extracted' = Append(extracted, r.auto_update)
    /\ labels_before' = labels
    /\ UNCHANGED <<versionVars, fileVars>>

NextLabels == ExtractFromLabels

SpecLabels == InitLabels /\ [][NextLabels]_vars

----------------------------------------------------------------------------
(* Rendering, naming and host paths of a File *)

Init ==
    /\ LabelsIdle
    /\ VersionIdle
    /\ \E name \in Names,
          unit \in {None, Some(UnitText)},
          resource \in Resources({<<>>, ResourceOptions}, MaxPaths),
          gopts \in {<<>>, GlobalsOptions},
          gpaths \in 0..MaxPaths,
          service \in {None, Some(ServiceText)},
          install \in {None, Some(InstallText)} :
          /\ resource.variant = "Network" => resource.payload.paths = <<>>
          /\ file = [name |-> name, unit |-> unit, resource |-> resource,
                     globals |-> [options |-> gopts, paths |-> Paths(gpaths)],
                     service |-> service, install |-> install]
    /\ last = NoCall
    /\ downgrades = <<>>
    /\ out = NoOutput

ServiceName ==
    /\ out' = [op |-> "service_name", value |-> service_name(file)]
    /\ UNCHANGED <<file, last, downgrades, labelVars, versionVars>>

Render ==
    /\ out' = [op |-> "fmt", text |-> File_fmt(file)]
    /\ UNCHANGED <<file, last, downgrades, labelVars, versionVars>>

HostPaths ==
    /\ out' = [op |-> "host_paths", chain |-> File_host_paths(file),
               yielded |-> <<>>, nexts |-> 0, ended |-> FALSE]
    /\ UNCHANGED <<file, last, downgrades, labelVars, versionVars>>

\* one next() on the iterator that host_paths returned, until it has
\* returned None
IterNext ==
    /\ out.op = "host_paths"
    /\ ~out.ended
    /\ LET r == Chain_next(out.chain)
       IN out' = [op |-> "host_paths", chain |-> r.chain,
                  yielded |-> IF r.item.some
                              THEN Append(out.yielded, r.item.value)
                              ELSE out.yielded,
                  nexts |-> out.nexts + 1,
                  ended |-> ~r.item.some]
    /\ UNCHANGED <<file, last, downgrades, labelVars, versionVars>>

Next ==
    \/ ServiceName
    \/ Render
    \/ HostPaths
    \/ IterNext

Spec == Init /\ [][Next]_vars

----------------------------------------------------------------------------
(* Downgrading a File *)

InitDowngrade ==
    /\ LabelsIdle
    /\ VersionIdle
    /\ \E resource \in Resources(SubSeqs(ResourceOptions), 0),
          gopts \in SubSeqs(GlobalsOptions) :
          file = [name |-> <<"a">>, unit |-> None, resource |-> resource,
                  globals |-> [options |-> gopts, paths |-> <<>>],
                  service |-> None, install |-> None]
    /\ last = NoCall
    /\ downgrades = <<>>
    /\ out = NoOutput

Record(op, target, before, after, result) ==
    [op |-> op, version |-> target, ok |-> result.ok,
     before |-> OptionsInUse(before), after |-> OptionsInUse(after)]

DowngradeFile(target) ==
    /\ Len(downgrades) < MaxDowngrades
    /\ LET r == File_downgrade(file, target)
       IN /\ file' = r.file
          /\ last' = [op |-> "File::downgrade", version |-> target,
                      before |-> file, result |-> r.result, trace |-> r.trace]
          /\ downgrades' = Append(downgrades,
                 Record("File::downgrade", target, file, r.file, r.result))
    /\ UNCHANGED <<out, labelVars, versionVars>>

DowngradeResource(target) ==
    /\ Len(downgrades) < MaxDowngrades
    /\ LET r == Resource_downgrade(file.resource, target)
           after == [file EXCEPT !.resource = r.resource]
       IN /\ file' = after
          /\ last' = [op |-> "Resource::downgrade", version |-> target,
                      before |-> file, result |-> r.result, trace |-> r.trace]
          /\ downgrades' = Append(downgrades,
                 Record("Resource::downgrade", target, file, after, r.result))
    /\ UNCHANGED <<out, labelVars, versionVars>>

NextDowngrade ==
    \/ \E target \in PodmanVersions : DowngradeFile(target)
    \/ \E target \in PodmanVersions : DowngradeResource(target)

SpecDowngrade == InitDowngrade /\ [][NextDowngrade]_vars

----------------------------------------------------------------------------
(* Claims about PodmanVersion *)

\* release numbers <<major, minor>> of the variants
Release(v) ==
    CASE v = "V4_4" -> <<4, 4>>
      [] v = "V4_5" -> <<4, 5>>
      [] v = "V4_6" -> <<4, 6>>
      [] v = "V4_7" -> <<4, 7>>
      [] v = "V4_8" -> <<4, 8>>
      [] v = "V5_0" -> <<5, 0>>

Earlier(a, b) ==
    \/ Release(a)[1] < Release(b)[1]
    \/ Release(a)[1] = Release(b)[1] /\ Release(a)[2] < Release(b)[2]

\* C7: the ordering is the strict total order of release chronology
\* V4_4 < V4_5 < V4_6 < V4_7 < V4_8 < V5_0; LATEST, default() and the "latest"
\* alias are the same variant, and every version is <= it.
C7_VersionOrder ==
    /\ ordering # NoOrdering =>
          /\ (ordering.result = "Less") <=> Earlier(ordering.a, ordering.b)
          /\ (ordering.result = "Equal") <=> (ordering.a = ordering.b)
          /\ (ordering.result = "Greater") <=> Earlier(ordering.b, ordering.a)
    /\ PodmanVersion_default = LATEST
    /\ token = "latest" => version = LATEST
    /\ token = NoToken => version = LATEST
    /\ le(version, LATEST)
    /\ \A v \in PodmanVersions : le(v, LATEST)

C7_Witness ==
    /\ token = "latest"
    /\ version = "V5_0"
    /\ ordering # NoOrdering
    /\ ordering.a = "V4_8"
    /\ ordering.b = "V5_0"
    /\ ordering.result = "Less"

----------------------------------------------------------------------------
(* Claims about extract_from_labels *)

ValidRegistry == Label(<<"=">> \o str_registry)
ValidLocal == Label(<<"=">> \o str_local)
IsValidEntry(l) == l = ValidRegistry \/ l = ValidLocal
ValueOf(l) == IF l = ValidRegistry THEN "Registry" ELSE "Local"
ValidIndices(v) == { i \in 1..Len(v) : IsValidEntry(v[i]) }
LastOf(S) == CHOOSE i \in S : \A j \in S : j <= i

\* C2: the call returns Some(v) for the value v of the LAST valid
\* io.containers.autoupdate=registry/local entry of the list, and None exactly
\* when the list has no such entry; other entries never influence the result.
C2_LastValidWins ==
    auto_update # NotCalled =>
        LET valid == ValidIndices(labels_before)
        IN /\ (valid = {}) <=> (auto_update = None)
           /\ valid # {} =>
                  auto_update = Some(ValueOf(labels_before[LastOf(valid)]))

C2_Witness ==
    /\ labels_before = <<ValidRegistry, ValidLocal,
                         Label(<<"=", "b", "o", "g", "u", "s">>),
                         <<"f", "o", "o", "=", "b", "a", "r">> >>
    /\ auto_update = Some("Local")

\* C3: after the call the list is the original list with exactly the valid
\* registry/local entries removed, the rest kept in order and unmodified.
C3_RetainsOthers ==
    auto_update # NotCalled =>
        labels = SelectSeq(labels_before, LAMBDA l : ~IsValidEntry(l))

C3_Witness ==
    /\ auto_update # NotCalled
    /\ Len(labels_before) = 4
    /\ IsValidEntry(labels_before[1])
    /\ IsValidEntry(labels_before[3])
    /\ labels = <<Label(<<"=", "b", "o", "g", "u", "s">>), Label(<<>>)>>

\* C10: a call that immediately follows another call returns None and leaves
\* the list unchanged.
C10_Idempotent ==
    Len(extracted) >= 2 =>
        /\ auto_update = None
        /\ labels = labels_before

C10_Witness ==
    /\ Len(extracted) >= 2
    /\ extracted[1] = Some("Registry")
    /\ extracted[2] = None
    /\ labels = labels_before
    /\ Len(labels) >= 1

----------------------------------------------------------------------------
(* Claims about File and Resource *)

Suffix(kind) ==
    CASE kind = "Container" -> <<>>
      [] kind = "Kube" -> <<>>
      [] kind = "Pod" -> <<"-", "p", "o", "d">>
      [] kind = "Network" -> <<"-", "n", "e", "t", "w", "o", "r", "k">>
      [] kind = "Volume" -> <<"-", "v", "o", "l", "u", "m", "e">>
      [] kind = "Image" -> <<"-", "i", "m", "a", "g", "e">>

DotService == <<".", "s", "e", "r", "v", "i", "c", "e">>

EndsWith(s, tail) ==
    Len(s) >= Len(tail) /\ SubSeq(s, Len(s) - Len(tail) + 1, Len(s)) = tail

\* C1: for every kind k and base name n the service name is exactly
\* n + suffix(k) + ".service", with suffix "" for Container and Kube, "-pod",
\* "-network", "-volume", "-image" for the others; it always ends in ".service".
C1_ServiceName ==
    out.op = "service_name" =>
        /\ out.value = file.name \o Suffix(file.resource.variant) \o DotService
        /\ EndsWith(out.value, DotService)

C1_Witness ==
    /\ out.op = "service_name"
    /\ file.resource.variant = "Volume"
    /\ file.name = <<"w", "e", "b">>
    /\ out.value = <<"w", "e", "b", "-", "v", "o", "l", "u", "m", "e",
                     ".", "s", "e", "r", "v", "i", "c", "e">>

KindGated ==
    /\ last.op # "none"
    /\ Earlier(last.version, KindSince(last.before.resource.variant))

VariantCall == last.before.resource.variant \o "::downgrade"

CalledNextTo(trace, caller, callee) ==
    \E i \in 1..(Len(trace) - 1) : trace[i] = caller /\ trace[i + 1] = callee

C5_OneWay ==
    \A i \in 1..Len(downgrades) :
        /\ downgrades[i].ok => downgrades[i].after \subseteq downgrades[i].before
        /\ \A j \in (i + 1)..Len(downgrades) :
              downgrades[i].ok /\ downgrades[j].ok =>
                  downgrades[j].after \subseteq downgrades[i].after

C5_Witness ==
    /\ Len(downgrades) >= 2
    /\ downgrades[1].ok
    /\ downgrades[2].ok
    /\ Earlier(downgrades[1].version, downgrades[2].version)
    /\ downgrades[1].after # downgrades[1].before
    /\ downgrades[2].after = downgrades[1].after

\* C6: File::downgrade runs the resource first and the globals second and
\* stops at the first error: a resource error is returned as is with the
\* globals never invoked and unmodified; when the resource succeeds the
\* globals' result is returned and the resource's mutations remain; Ok only
\* when both succeed.
C6_FirstErrorStops ==
    last.op = "File::downgrade" =>
        LET r == Resource_downgrade(last.before.resource, last.version)
            g == Globals_downgrade(last.before.globals, last.version)
            globalsRan == \E i \in 1..Len(last.trace) :
                              last.trace[i] = "Globals::downgrade"
        IN /\ last.trace[1] = "File::downgrade"
           /\ last.trace[2] = "Resource::downgrade"
           /\ globalsRan => last.trace[Len(last.trace)] = "Globals::downgrade"
           /\ ~r.result.ok =>
                 /\ last.result = r.result
                 /\ ~globalsRan
                 /\ file.globals = last.before.globals
           /\ r.result.ok =>
                 /\ globalsRan
                 /\ last.result = g.result
                 /\ file.resource = r.resource
                 /\ file.globals = g.globals
           /\ last.result.ok <=> (r.result.ok /\ g.result.ok)

C6_Witness ==
    /\ last.op = "File::downgrade"
    /\ ~last.result.ok
    /\ last.result.error = "Option"
    /\ last.result.quadlet_option = "Module"
    /\ file.resource # last.before.resource
    /\ file.globals # last.before.globals

ExpectedHandles ==
    LET resourcePart ==
            IF file.resource.variant = "Network" THEN <<>>
            ELSE [i \in 1..Len(file.resource.payload.paths) |->
                     Handle("resource", i)]
        globalsPart == [i \in 1..Len(file.globals.paths) |-> Handle("globals", i)]
    IN resourcePart \o globalsPart

Min(a, b) == IF a < b THEN a ELSE b

\* C8: File::host_paths yields the resource's handles in the variant's order,
\* then the globals' handles, each once and none skipped, and ends after the
\* last globals handle; for a Network exactly the globals' handles.
C8_Concatenation ==
    out.op = "host_paths" =>
        /\ Len(out.yielded) = Min(out.nexts, Len(ExpectedHandles))
        /\ out.yielded = SubSeq(ExpectedHandles, 1, Len(out.yielded))
        /\ out.ended <=> (out.nexts = Len(ExpectedHandles) + 1)

C8_Witness ==
    /\ out.op = "host_paths"
    /\ out.ended
    /\ file.resource.variant = "Volume"
    /\ out.yielded = <<Handle("resource", 1), Handle("resource", 2),
                       Handle("globals", 1), Handle("globals", 2)>>

\* C9: the rendered File is, in this order: the unit block and a line break
\* (only if there is a unit), the resource section, the globals text right
\* after it, a line break and the service block (only if present), a line
\* break and the install block (only if present).
C9_RenderOrder ==
    out.op = "fmt" =>
        out.text =
            (IF file.unit = None THEN <<>> ELSE file.unit.value \o <<"\n">>)
            \o Resource_fmt(file.resource)
            \o Globals_fmt(file.globals)
            \o (IF file.service = None THEN <<>>
                ELSE <<"\n">> \o file.service.value)
            \o (IF file.install = None THEN <<>>
                ELSE <<"\n">> \o file.install.value)

C9_Witness ==
    /\ out.op = "fmt"
    /\ file.unit # None
    /\ file.service # None
    /\ file.install # None
    /\ file.resource.payload.options # <<>>
    /\ file.globals.options # <<>>
    /\ Len(out.text) = Len(UnitText) + Len(ServiceText) + Len(InstallText)
                       + Len(ResourceOptions) + Len(GlobalsOptions) + 5

====
